---- MODULE Spec2Model ----
(***************************************************************************)
(* Model of PythonPerformance.ipynb: the Monte Carlo estimators of pi      *)
(* (naive loop, vectorized, numba-compiled, Julia), the Lorenz vector      *)
(* field in its five variants, and the integration cells that call an ODE  *)
(* solver on it.                                                           *)
(*                                                                         *)
(* Numbers.  Floating-point values are modelled exactly, as integers over  *)
(* a fixed denominator (fixed point) or as fractions num/den; IEEE         *)
(* rounding is not modelled.  A uniform draw in [0,1) is k/Q for           *)
(* k in 0..Q-1; coordinates and radii are counted in units of 1/(2Q).      *)
(***************************************************************************)
EXTENDS Integers, Sequences, FiniteSets, TLC

VARIABLES
    \* the estimator cells
    variant, nMC, pc, i, n_circle, d, pi_est, calls, printed,
    \* one evaluation of the Lorenz vector field
    u, p, tcall, du, res, q, coef, lin,
    \* the integration cells
    cell, u0, t, tol, ipc, idx, sub, sol, runs, first,
    \* the notebook: names bound in the kernels, cells executed
    ns, ran, failed, ext, inorder

pivars == <<variant, nMC, pc, i, n_circle, d, pi_est, calls, printed>>
lzvars == <<u, p, tcall, du, res>>
linvars == <<q, coef, lin>>

igvars == <<cell, u0, t, tol, ipc, idx, sub, sol, runs, first>>

nbvars == <<ns, ran, failed, ext, inorder>>

vars == <<pivars, lzvars, linvars, igvars, nbvars>>

(* ------------------------------ bounds --------------------------------- *)
\* largest trial count explored (the notebook uses 100000000)
MaxN == 2
\* resolution of the random source: draws are k/Q, k in 0..Q-1
Q == 4

(* ------------------------- program constants --------------------------- *)
\* radius = 1.
radius == 1
\* for i in range(3): three timed calls per cell
NCalls == 3

Draws == 0 .. (Q - 1)
Unit == 2 * Q
Variants == {"loop", "vectorized", "numba", "julia"}

(* ------------------------- estimator arithmetic ------------------------ *)
\* diameter = 2.*radius
diameter == 2 * radius

\* (np.random.random()-0.5)*diameter for the draw k/Q, in units of 1/Unit:
\* k/Q = 2k/Unit, 0.5 = Q/Unit
Coord(k) == (2 * k - Q) * diameter

\* np.sqrt / sqrt on a value s counted in units of 1/Unit^2; the result is in
\* units of 1/Unit, rounded up, so that comparing it with a whole number of
\* units is the comparison of the real root
np_sqrt(s) == CHOOSE m \in 0 .. s : m * m >= s /\ (m = 0 \/ (m - 1) * (m - 1) < s)

\* r = np.sqrt(x**2 + y**2)
Radial(a, b) == np_sqrt(Coord(a) * Coord(a) + Coord(b) * Coord(b))

\* if r <= radius
InCircle_strict(a, b) == Radial(a, b) < radius * Unit
InCircle(a, b) == Radial(a, b) <= radius * Unit

\* outcomes of a call: a float num/den, a raised ZeroDivisionError, a NaN
NoResult == [kind |-> "none", num |-> 0, den |-> 1]
Float(n, m) == [kind |-> "float", num |-> n, den |-> m]
ZeroDivisionError == [kind |-> "ZeroDivisionError", num |-> 0, den |-> 1]
NaN == [kind |-> "NaN", num |-> 0, den |-> 1]

\* return 4.*n_circle/nMC   (Python float division raises on a zero divisor;
\* numba.njit keeps the Python error model)
py_return_offbyone(n, m) == IF m = 0 THEN ZeroDivisionError ELSE Float(4 * (n + 1), m)
py_return(n, m) == IF m = 0 THEN ZeroDivisionError ELSE Float(4 * n, m)

\* return (n_circle/nMC) * 4.   (Julia: Int/Int is Float64 division, 0/0 is NaN)
jl_return(n, m) == IF m = 0 THEN NaN ELSE Float(n * 4, m)

\* r[circle_mask].shape[0] for the N-by-2 array filled row by row from arr
MaskCount_colmajor(arr, n) ==
    Cardinality({j \in 1 .. n : InCircle(arr[j], arr[n + j])})
RECURSIVE MaskCount(_, _)
MaskCount(arr, n) ==
    IF n = 0 THEN 0
    ELSE MaskCount(arr, n - 1) + (IF InCircle(arr[2 * n - 1], arr[2 * n]) THEN 1 ELSE 0)

(* --------------------------- Lorenz vector field ----------------------- *)
\* largest magnitude of a state component explored
MaxVal == 1
\* largest parameter value explored (sigma, rho, beta are not negative)
MaxPar == 2
\* largest time argument explored
MaxT == 1
\* largest scalar of a parameter combination explored
MaxCoef == 2

Vals == (0 - MaxVal) .. MaxVal
Pars == 0 .. MaxPar
Times == 0 .. MaxT
LinPars == {0, 1}
Coefs == (0 - 1) .. MaxCoef
Vec3(S) == [1 .. 3 -> S]
Zero3 == <<0, 0, 0>>
None == << >>
FieldVariants == {"lorenz", "numba_f", "f", "lorenz!", "lorenz_static"}

\* def lorenz(u, t, sigma, rho, beta): x, y, z = u; return [...]
lorenz_flipped(uu, tt, sigma, rho, beta) ==
    LET x == uu[1]
        y == uu[2]
        z == uu[3]
    IN  <<sigma * (x - y), x * (rho - z) - y, x * y - beta * z>>
lorenz_plus(uu, tt, sigma, rho, beta) ==
    LET x == uu[1]
        y == uu[2]
        z == uu[3]
    IN  <<sigma * (y - x), x + (rho - z) - y, x * y - beta * z>>
lorenz_square(uu, tt, sigma, rho, beta) ==
    LET x == uu[1]
        y == uu[2]
        z == uu[3]
    IN  <<sigma * (y - x), x * (rho - z) - y, x * y - beta * beta * z>>
lorenz_four(uu, tt, sigma, rho, beta) ==
    LET x == uu[1]
        y == uu[2]
        z == uu[3]
    IN  <<sigma * (y - x), x * (rho - z) - y, x * y - beta * z, tt>>
lorenz(uu, tt, sigma, rho, beta) ==
    LET x == uu[1]
        y == uu[2]
        z == uu[3]
    IN  <<sigma * (y - x), x * (rho - z) - y, x * y - beta * z>>

\* numba_f = numba.jit(lorenz,nopython=True): the same function, compiled
numba_f(uu, tt, sigma, rho, beta) == lorenz(uu, tt, sigma, rho, beta)

\* The in-place Julia fields work on the caller's memory: the buffer du, the
\* state u and the parameters p.  Each takes the memory before the call and
\* yields the memory after it, one assignment after the other.
Mem(bdu, bu, bp) == [du |-> bdu, u |-> bu, p |-> bp]

\* function f(du,u,p,t) of the diffeqpy cell
f_skip3(m, tt) ==
    LET x == m.u[1]
        y == m.u[2]
        z == m.u[3]
        sigma == m.p[1]
        rho == m.p[2]
        m1 == [m EXCEPT !.du[1] = sigma * (y - x)]
    IN  [m1 EXCEPT !.du[2] = x * (rho - z) - y]
f(m, tt) ==
    LET x == m.u[1]
        y == m.u[2]
        z == m.u[3]
        sigma == m.p[1]
        rho == m.p[2]
        beta == m.p[3]
        m1 == [m EXCEPT !.du[1] = sigma * (y - x)]
        m2 == [m1 EXCEPT !.du[2] = x * (rho - z) - y]
    IN  [m2 EXCEPT !.du[3] = x * y - beta * z]

\* function lorenz!(du,u,p,t)
lorenz_bang_on_u(m, tt) ==
    LET m1 == [m EXCEPT !.u[1] = m.p[1] * (m.u[2] - m.u[1])]
        m2 == [m1 EXCEPT !.du[2] = m1.u[1] * (m1.p[2] - m1.u[3]) - m1.u[2]]
    IN  [m2 EXCEPT !.du[3] = m2.u[1] * m2.u[2] - m2.p[3] * m2.u[3]]
lorenz_bang(m, tt) ==
    LET m1 == [m EXCEPT !.du[1] = m.p[1] * (m.u[2] - m.u[1])]
        m2 == [m1 EXCEPT !.du[2] = m1.u[1] * (m1.p[2] - m1.u[3]) - m1.u[2]]
    IN  [m2 EXCEPT !.du[3] = m2.u[1] * m2.u[2] - m2.p[3] * m2.u[3]]

\* function lorenz_static(u,p,t): a fresh SVector
lorenz_static_swapped(uu, pp, tt) ==
    LET dx == pp[1] * (uu[2] - uu[1])
        dy == uu[1] * (pp[3] - uu[3]) - uu[2]
        dz == uu[1] * uu[2] - pp[2] * uu[3]
    IN  <<dx, dy, dz>>
lorenz_static(uu, pp, tt) ==
    LET dx == pp[1] * (uu[2] - uu[1])
        dy == uu[1] * (pp[2] - uu[3]) - uu[2]
        dz == uu[1] * uu[2] - pp[3] * uu[3]
    IN  <<dx, dy, dz>>

NoRes == [v \in FieldVariants |-> None]

PiIdle ==
    /\ variant = "loop"
    /\ nMC = 0
    /\ pc = "off"
    /\ i = 0
    /\ n_circle = 0
    /\ d = << >>
    /\ pi_est = NoResult
    /\ calls = 0
    /\ printed = << >>

LorenzIdle ==
    /\ u = Zero3
    /\ p = Zero3
    /\ tcall = 0
    /\ du = Zero3
    /\ res = NoRes

LinearIdle ==
    /\ q = Zero3
    /\ coef = <<0, 0>>
    /\ lin = None

Tols == {"default", "1e-8"}
NoFirst == [x \in Tols |-> None]

IntegIdle ==
    /\ cell = "none"
    /\ u0 = Zero3
    /\ t = << >>
    /\ tol = "default"
    /\ ipc = "off"
    /\ idx = 0
    /\ sub = 0
    /\ sol = << >>
    /\ runs = 0
    /\ first = NoFirst

NotebookIdle ==
    /\ ns = {}
    /\ ran = {}
    /\ failed = {}
    /\ ext = << >>
    /\ inorder = {}

(* ------------------------------ estimator ------------------------------ *)
InitPi ==
    /\ variant \in Variants
    /\ nMC \in 0 .. MaxN
    /\ pc = "ready"
    /\ i = 0
    /\ n_circle = 0
    /\ d = << >>
    /\ pi_est = NoResult
    /\ calls = 0
    /\ printed = << >>
    /\ LorenzIdle
    /\ LinearIdle
    /\ IntegIdle
    /\ NotebookIdle

\* entry of a loop estimator: radius, diameter, n_circle = 0
Enter_noreset ==
    /\ pc = "ready"
    /\ variant \in {"loop", "numba", "julia"}
    /\ pc' = "loop"
    /\ i' = 0
    /\ n_circle' = n_circle
    /\ d' = << >>
    /\ UNCHANGED <<variant, nMC, pi_est, calls, printed, lzvars, linvars, igvars, nbvars>>
Enter ==
    /\ pc = "ready"
    /\ variant \in {"loop", "numba", "julia"}
    /\ pc' = "loop"
    /\ i' = 0
    /\ n_circle' = 0
    /\ d' = << >>
    /\ UNCHANGED <<variant, nMC, pi_est, calls, printed, lzvars, linvars, igvars, nbvars>>

\* one iteration of for i in range(nMC): two draws, x before y
Iterate_offbyone ==
    /\ pc = "loop"
    /\ i <= nMC
    /\ \E a \in Draws, b \in Draws :
          /\ d' = d \o <<a, b>>
          /\ n_circle' = IF InCircle(a, b) THEN n_circle + 1 ELSE n_circle
    /\ i' = i + 1
    /\ UNCHANGED <<variant, nMC, pc, pi_est, calls, printed, lzvars, linvars, igvars, nbvars>>
Iterate ==
    /\ pc = "loop"
    /\ i < nMC
    /\ \E a \in Draws, b \in Draws :
          /\ d' = d \o <<a, b>>
          /\ n_circle' = IF InCircle(a, b) THEN n_circle + 1 ELSE n_circle
    /\ i' = i + 1
    /\ UNCHANGED <<variant, nMC, pc, pi_est, calls, printed, lzvars, linvars, igvars, nbvars>>

\* loop exhausted: the return statement
Return ==
    /\ pc = "loop"
    /\ i = nMC
    /\ pi_est' = IF variant = "julia" THEN jl_return(n_circle, nMC)
                                     ELSE py_return(n_circle, nMC)
    /\ pc' = "done"
    /\ calls' = calls + 1
    /\ UNCHANGED <<variant, nMC, i, n_circle, d, printed, lzvars, linvars, igvars, nbvars>>

\* the vectorized estimator, whole body
Vectorized ==
    /\ pc = "ready"
    /\ variant = "vectorized"
    /\ \E arr \in [1 .. 2 * nMC -> Draws] :
          /\ d' = arr
          /\ n_circle' = MaskCount(arr, nMC)
    /\ printed' = Append(printed, n_circle')
    /\ pi_est' = py_return(n_circle', nMC)
    /\ i' = 0
    /\ pc' = "done"
    /\ calls' = calls + 1
    /\ UNCHANGED <<variant, nMC, lzvars, linvars, igvars, nbvars>>

\* the timing loop starts the next call; an uncaught exception ends the cell.
\* d records the draws of one call and is emptied for the next; the counters
\* are left as they are: it is the function entry that sets them.
NextCall ==
    /\ pc = "done"
    /\ calls < NCalls
    /\ pi_est.kind # "ZeroDivisionError"
    /\ pc' = "ready"
    /\ d' = << >>
    /\ UNCHANGED <<variant, nMC, i, n_circle, pi_est, calls, printed, lzvars, linvars,
                   igvars, nbvars>>

NextPi == Enter \/ Iterate \/ Return \/ Vectorized \/ NextCall

SpecPi == InitPi /\ [][NextPi]_vars

\* one call of a loop estimator, run to its end: the interpreter executes
\* the next statement whenever there is one
InitLoop == InitPi /\ variant \in {"loop", "numba", "julia"}

NextLoop == Enter \/ Iterate \/ Return

FairLoop == InitLoop /\ [][NextLoop]_vars /\ WF_vars(NextLoop)

(* ---------------------- evaluating the vector field -------------------- *)
\* One state, one parameter triple and one time; every variant of the field
\* is evaluated on them, in any order.  du is the caller's buffer, whose
\* content before the first in-place call is arbitrary.
InitLorenz ==
    /\ PiIdle
    /\ NotebookIdle
    /\ LinearIdle
    /\ IntegIdle
    /\ u \in Vec3(Vals)
    /\ p \in Vec3(Pars)
    /\ tcall \in Times
    /\ du \in {Zero3, <<1, 1, 1>>}
    /\ res = NoRes

\* lorenz(u, t, sigma, rho, beta), parameters bound from args=(sigma, rho, beta)
Call_lorenz ==
    /\ res["lorenz"] = None
    /\ res' = [res EXCEPT !["lorenz"] = lorenz(u, tcall, p[1], p[2], p[3])]
    /\ UNCHANGED <<u, p, tcall, du, pivars, linvars, igvars, nbvars>>

Call_numba_f ==
    /\ res["numba_f"] = None
    /\ res' = [res EXCEPT !["numba_f"] = numba_f(u, tcall, p[1], p[2], p[3])]
    /\ UNCHANGED <<u, p, tcall, du, pivars, linvars, igvars, nbvars>>

Call_f ==
    /\ res["f"] = None
    /\ LET m == f(Mem(du, u, p), tcall)
       IN  /\ du' = m.du
           /\ u' = m.u
           /\ p' = m.p
           /\ res' = [res EXCEPT !["f"] = m.du]
    /\ UNCHANGED <<tcall, pivars, linvars, igvars, nbvars>>

Call_lorenz_bang ==
    /\ res["lorenz!"] = None
    /\ LET m == lorenz_bang(Mem(du, u, p), tcall)
       IN  /\ du' = m.du
           /\ u' = m.u
           /\ p' = m.p
           /\ res' = [res EXCEPT !["lorenz!"] = m.du]
    /\ UNCHANGED <<tcall, pivars, linvars, igvars, nbvars>>

Call_lorenz_static ==
    /\ res["lorenz_static"] = None
    /\ res' = [res EXCEPT !["lorenz_static"] = lorenz_static(u, p, tcall)]
    /\ UNCHANGED <<u, p, tcall, du, pivars, linvars, igvars, nbvars>>

NextLorenz ==
    Call_lorenz \/ Call_numba_f \/ Call_f \/ Call_lorenz_bang \/ Call_lorenz_static

SpecLorenz == InitLorenz /\ [][NextLorenz]_vars

(* ------------------- the field on combined parameters ------------------ *)
Scale(a, v) == [k \in 1 .. 3 |-> a * v[k]]
Plus(v, w) == [k \in 1 .. 3 |-> v[k] + w[k]]

\* two parameter triples p and q, two scalars: the field at the combination
\* coef[1]*p + coef[2]*q, at p and at q, for one state
InitLinear ==
    /\ PiIdle
    /\ NotebookIdle
    /\ IntegIdle
    /\ u \in Vec3(Vals)
    /\ p \in Vec3(LinPars)
    /\ q \in Vec3(LinPars)
    /\ coef \in Coefs \X Coefs
    /\ tcall = 0
    /\ du = Zero3
    /\ res = NoRes
    /\ lin = None

Combine ==
    /\ lin = None
    /\ LET pq == Plus(Scale(coef[1], p), Scale(coef[2], q))
       IN  lin' = [at_pq |-> lorenz(u, tcall, pq[1], pq[2], pq[3]),
                   at_p |-> lorenz(u, tcall, p[1], p[2], p[3]),
                   at_q |-> lorenz(u, tcall, q[1], q[2], q[3])]
    /\ UNCHANGED <<pivars, lzvars, q, coef, igvars, nbvars>>

NextLinear == Combine

SpecLinear == InitLinear /\ [][NextLinear]_vars

(* --------------------------- integration cells ------------------------- *)
\* number of sample intervals of the grid (the notebook has 1000)
NIntervals == 3
\* number of solver runs followed in a cell (the notebook: first solve,
\* warm-up call, 100 timed repetitions)
MaxRuns == 3
\* state components are kept in -MaxState .. MaxState by wrapping
MaxState == 2
\* largest parameter value of an integrated system
MaxSolvePar == 1
\* the sample spacing 0.1, counted in time units of 0.05
SaveAt == 2

\* tspan = (0., 100.)
TEnd == NIntervals * SaveAt
tspan == <<0, TEnd>>

\* np.linspace(start, stop, num): num points, both ends included
linspace_noend(start, stop, num) ==
    [j \in 1 .. num |-> start + ((j - 1) * (stop - start)) \div num]
linspace_reversed(start, stop, num) ==
    [j \in 1 .. num |-> stop + ((j - 1) * (start - stop)) \div (num - 1)]
linspace(start, stop, num) ==
    [j \in 1 .. num |-> start + ((j - 1) * (stop - start)) \div (num - 1)]

\* saveat=0.1 on tspan: the points tspan[1], tspan[1]+saveat, ..., tspan[2]
saveat_grid(span, h) ==
    [j \in 1 .. ((span[2] - span[1]) \div h + 1) |-> span[1] + (j - 1) * h]

PythonCells == {"odeint_lorenz", "odeint_numba_f", "de_solve_f"}
JuliaCells == {"solve_lorenz!", "solve_lorenz_static"}
IntegCells == PythonCells \cup JuliaCells
InPlaceCells == {"de_solve_f", "solve_lorenz!"}

\* the sample times a run of the cell reports at: the array t, or saveat
Grid == IF cell \in PythonCells THEN t ELSE saveat_grid(tspan, SaveAt)

\* tolerances of the run-th solver call of a cell: the first odeint call of
\* the lorenz cell leaves rtol/atol at their defaults, every other call
\* passes 1e-8
TolOf(c, run) == IF c = "odeint_lorenz" /\ run = 0 THEN "default" ELSE "1e-8"

\* The solver is a library.  It is modelled as a one-step method that goes
\* from one sample time to the next in Substeps(tol) equal steps, evaluates
\* the vector field once per step and keeps the state components in range.
Substeps(x) == IF x = "default" THEN 1 ELSE 2
Wrap(v) == ((v + MaxState) % (2 * MaxState + 1)) - MaxState
Advance(uu, dd, h) == [j \in 1 .. 3 |-> Wrap(uu[j] + h * dd[j])]

\* the vector field the cell hands to the solver, on the solver's memory
Field(c, m, tt) ==
    CASE c = "odeint_lorenz" ->
            [m EXCEPT !.du = lorenz(m.u, tt, m.p[1], m.p[2], m.p[3])]
      [] c = "odeint_numba_f" ->
            [m EXCEPT !.du = numba_f(m.u, tt, m.p[1], m.p[2], m.p[3])]
      [] c = "de_solve_f" -> f(m, tt)
      [] c = "solve_lorenz!" -> lorenz_bang(m, tt)
      [] c = "solve_lorenz_static" -> [m EXCEPT !.du = lorenz_static(m.u, m.p, tt)]

\* u0, p and the grid t as the cell defines them; no solver call made yet
InitInteg ==
    /\ PiIdle
    /\ NotebookIdle
    /\ LinearIdle
    /\ cell \in IntegCells
    /\ u0 \in Vec3(0 .. MaxVal)
    /\ p \in Vec3(0 .. MaxSolvePar)
    /\ t = IF cell \in PythonCells THEN linspace(0, TEnd, NIntervals + 1) ELSE << >>
    /\ u = Zero3
    /\ du = Zero3
    /\ tcall = 0
    /\ res = NoRes
    /\ tol = "default"
    /\ ipc = "idle"
    /\ idx = 0
    /\ sub = 0
    /\ sol = << >>
    /\ runs = 0
    /\ first = NoFirst

\* a solver call begins: odeint(...), de.solve(prob, ...), solve(prob, ...).
\* The solver works on its own copy of u0; the derivative buffer of an
\* in-place field is fresh memory of arbitrary content.
StartRun ==
    /\ ipc = "idle"
    /\ runs < MaxRuns
    /\ ipc' = "running"
    /\ tol' = TolOf(cell, runs)
    /\ u' = u0
    /\ du' \in IF cell \in InPlaceCells THEN {Zero3, <<1, 1, 1>>} ELSE {du}
    /\ tcall' = Grid[1]
    /\ idx' = 1
    /\ sub' = 0
    /\ sol' = <<[t |-> Grid[1], u |-> u0]>>
    /\ UNCHANGED <<cell, u0, t, p, res, runs, first, pivars, linvars, nbvars>>

\* one step of the solver: the field is evaluated at the current state and
\* the state advanced; on reaching the next sample time the state is saved
Step ==
    /\ ipc = "running"
    /\ idx < Len(Grid)
    /\ LET h == (Grid[idx + 1] - Grid[idx]) \div Substeps(tol)
           m == Field(cell, Mem(du, u, p), tcall)
           next == Advance(m.u, m.du, h)
       IN  /\ u' = next
           /\ du' = m.du
           /\ p' = m.p
           /\ IF sub + 1 = Substeps(tol)
              THEN /\ sub' = 0
                   /\ idx' = idx + 1
                   /\ tcall' = Grid[idx + 1]
                   /\ sol' = Append(sol, [t |-> Grid[idx + 1], u |-> next])
              ELSE /\ sub' = sub + 1
                   /\ tcall' = tcall + h
                   /\ UNCHANGED <<idx, sol>>
    /\ UNCHANGED <<cell, u0, t, tol, ipc, res, runs, first, pivars, linvars, nbvars>>

\* the last sample time is reached: the call returns the trajectory
FinishRun ==
    /\ ipc = "running"
    /\ idx = Len(Grid)
    /\ ipc' = "idle"
    /\ runs' = runs + 1
    /\ first' = IF first[tol] = None THEN [first EXCEPT ![tol] = sol] ELSE first
    /\ UNCHANGED <<cell, u0, t, tol, idx, sub, sol, u, du, p, tcall, res,
                   pivars, linvars, nbvars>>

NextInteg == StartRun \/ Step \/ FinishRun

SpecInteg == InitInteg /\ [][NextInteg]_vars

(* ------------------------------- the notebook -------------------------- *)
\* A code cell is the sequence of its top-level statements; a statement reads
\* names (a call reads what the called function's body reads) and binds
\* names.  Builtins are left out.  Names of the Julia kernel carry "jl:".
St(reads, binds) == [reads |-> reads, binds |-> binds]

\* import numpy as np
Cell_57d69eb4_numpy == <<St({}, {"numpy"})>>
Cell_57d69eb4 == <<St({}, {"np"})>>

\* def estimate_pi; nMC = 100000000; the timing loop (naive loop)
Cell_e7ebfd29 ==
    <<St({}, {"estimate_pi"}),
      St({}, {"nMC"}),
      St({"estimate_pi", "nMC", "np"}, {"i", "pi_est"})>>

\* the same cell with the vectorized estimate_pi
Cell_199a5511 ==
    <<St({}, {"estimate_pi"}),
      St({}, {"nMC"}),
      St({"estimate_pi", "nMC", "np"}, {"i", "pi_est"})>>

\* import numba; @numba.njit def estimate_pi; nMC; the timing loop
Cell_b8f59e2c ==
    <<St({}, {"numba"}),
      St({"numba"}, {"estimate_pi"}),
      St({}, {"nMC"}),
      St({"estimate_pi", "nMC", "np"}, {"i", "pi_est"})>>

\* imports, lorenz, u0, tspan, t, sol, time_func, warm-up, timeit
Cell_41fdcaa3 ==
    <<St({}, {"np", "odeint", "timeit", "numba"}),
      St({}, {"lorenz"}),
      St({}, {"u0"}),
      St({}, {"tspan"}),
      St({"np"}, {"t"}),
      St({"odeint", "lorenz", "u0", "t"}, {"sol"}),
      St({}, {"time_func"}),
      St({"time_func", "odeint", "lorenz", "u0", "t"}, {}),
      St({"timeit", "time_func", "odeint", "lorenz", "u0", "t"}, {})>>

\* numba_f = numba.jit(lorenz, ...), time_func, warm-up, timeit
Cell_5129fb53 ==
    <<St({"numba", "lorenz"}, {"numba_f"}),
      St({}, {"time_func"}),
      St({"time_func", "odeint", "numba_f", "u0", "t"}, {}),
      St({"timeit", "time_func", "odeint", "numba_f", "u0", "t"}, {})>>

\* imports Main, de, np; jul_f, u0, tspan, t, p, prob, sol, time_func, timeit
Cell_00462be5 ==
    <<St({}, {"Main", "de", "np"}),
      St({"Main"}, {"jul_f"}),
      St({}, {"u0"}),
      St({}, {"tspan"}),
      St({"np"}, {"t"}),
      St({}, {"p"}),
      St({"de", "jul_f", "u0", "tspan", "p"}, {"prob"}),
      St({"de", "prob", "t"}, {"sol"}),
      St({}, {"time_func"}),
      St({"time_func", "de", "prob", "t"}, {}),
      St({"timeit", "time_func", "de", "prob", "t"}, {})>>

\* using BenchmarkTools; function estimate_pi; nMC; @benchmark
Cell_b352e6a7 ==
    <<St({}, {"jl:BenchmarkTools"}),
      St({}, {"jl:estimate_pi"}),
      St({}, {"jl:nMC"}),
      St({"jl:BenchmarkTools", "jl:estimate_pi", "jl:nMC"}, {})>>

\* using DifferentialEquations, BenchmarkTools; lorenz!, u0, p, tspan, prob,
\* two @btime solve
Cell_9d938a88 ==
    <<St({}, {"jl:DifferentialEquations", "jl:BenchmarkTools"}),
      St({}, {"jl:lorenz!"}),
      St({}, {"jl:u0"}),
      St({}, {"jl:p"}),
      St({}, {"jl:tspan"}),
      St({"jl:DifferentialEquations", "jl:lorenz!", "jl:u0", "jl:tspan", "jl:p"},
         {"jl:prob"}),
      St({"jl:BenchmarkTools", "jl:DifferentialEquations", "jl:prob"}, {}),
      St({"jl:BenchmarkTools", "jl:DifferentialEquations", "jl:prob"}, {})>>

\* using StaticArrays; lorenz_static, u0, p, tspan, prob, two @btime solve
Cell_a2471095 ==
    <<St({}, {"jl:StaticArrays"}),
      St({}, {"jl:lorenz_static"}),
      St({"jl:StaticArrays"}, {"jl:u0"}),
      St({"jl:StaticArrays"}, {"jl:p"}),
      St({}, {"jl:tspan"}),
      St({"jl:DifferentialEquations", "jl:lorenz_static", "jl:u0", "jl:tspan", "jl:p"},
         {"jl:prob"}),
      St({"jl:BenchmarkTools", "jl:DifferentialEquations", "jl:prob"}, {}),
      St({"jl:BenchmarkTools", "jl:DifferentialEquations", "jl:prob"}, {})>>

\* the code cells of each kernel, in notebook order
PyOrder == <<"57d69eb4", "e7ebfd29", "199a5511", "b8f59e2c", "41fdcaa3",
             "5129fb53", "00462be5">>
JlOrder == <<"b352e6a7", "9d938a88", "a2471095">>
Range(sq) == {sq[j] : j \in 1 .. Len(sq)}
Cells == Range(PyOrder) \cup Range(JlOrder)

Body(c) ==
    CASE c = "57d69eb4" -> Cell_57d69eb4
      [] c = "e7ebfd29" -> Cell_e7ebfd29
      [] c = "199a5511" -> Cell_199a5511
      [] c = "b8f59e2c" -> Cell_b8f59e2c
      [] c = "41fdcaa3" -> Cell_41fdcaa3
      [] c = "5129fb53" -> Cell_5129fb53
      [] c = "00462be5" -> Cell_00462be5
      [] c = "b352e6a7" -> Cell_b352e6a7
      [] c = "9d938a88" -> Cell_9d938a88
      [] c = "a2471095" -> Cell_a2471095

\* the cells above c in its kernel
Earlier(c) ==
    LET ord == IF c \in Range(PyOrder) THEN PyOrder ELSE JlOrder
        pos == CHOOSE j \in 1 .. Len(ord) : ord[j] = c
    IN  {ord[j] : j \in 1 .. (pos - 1)}

\* Executing the statements from the j-th on.  names: the names bound in the
\* kernel; own: those this cell bound so far; seen: the names read so far
\* that this cell had not bound itself.  A read of an unbound name raises and
\* ends the cell, leaving what the earlier statements bound.
RECURSIVE Exec(_, _, _, _, _)
Exec(body, j, names, own, seen) ==
    IF j > Len(body)
    THEN [ns |-> names, ok |-> TRUE, ext |-> seen]
    ELSE IF body[j].reads \subseteq names
         THEN Exec(body, j + 1, names \cup body[j].binds, own \cup body[j].binds,
                   seen \cup (body[j].reads \ own))
         ELSE [ns |-> names, ok |-> FALSE, ext |-> seen \cup (body[j].reads \ own)]

\* two fresh kernels, no cell executed
InitNotebook ==
    /\ PiIdle
    /\ LorenzIdle
    /\ LinearIdle
    /\ IntegIdle
    /\ ns = {}
    /\ ran = {}
    /\ failed = {}
    /\ ext = [c \in Cells |-> {}]
    /\ inorder = {}

\* a cell not yet executed is executed, whatever was executed before it
RunCell ==
    \E c \in Cells \ ran :
        LET r == Exec(Body(c), 1, ns, {}, {})
        IN  /\ ns' = r.ns
            /\ ran' = ran \cup {c}
            /\ failed' = IF r.ok THEN failed ELSE failed \cup {c}
            /\ ext' = [ext EXCEPT ![c] = r.ext]
            /\ inorder' = IF Earlier(c) \subseteq (ran \ failed)
                          THEN inorder \cup {c} ELSE inorder
            /\ UNCHANGED <<pivars, lzvars, linvars, igvars>>

NextNotebook == RunCell

SpecNotebook == InitNotebook /\ [][NextNotebook]_vars

(* ============================ properties =============================== *)

\* the point of a trial as the contract states it, in units of 1/Unit:
\* x = (d - 0.5) * 2 * radius for the draw d = k/Q
PointCoord(k) == (2 * k - Q) * 2 * radius
WithinCircle(a, b) ==
    PointCoord(a) * PointCoord(a) + PointCoord(b) * PointCoord(b)
        <= (radius * Unit) * (radius * Unit)
OnCircle(a, b) ==
    PointCoord(a) * PointCoord(a) + PointCoord(b) * PointCoord(b)
        = (radius * Unit) * (radius * Unit)
Hits == Cardinality({j \in 1 .. nMC : WithinCircle(d[2 * j - 1], d[2 * j])})

\* C1: for N >= 1 a finished call has taken 2N draws and returns 4*k/N, k the
\* number of trials whose point lies within or on the circle of radius 1
C1_EstimateIsFourKOverN ==
    (pc = "done" /\ nMC >= 1) =>
        /\ Len(d) = 2 * nMC
        /\ pi_est.kind = "float"
        /\ pi_est.num * nMC = 4 * Hits * pi_est.den

\* a finished two-trial call whose first point lies exactly on the circle and
\* is counted, and whose second point is outside
C1_Witness ==
    /\ pc = "done"
    /\ nMC = 2
    /\ OnCircle(d[1], d[2])
    /\ ~WithinCircle(d[3], d[4])
    /\ pi_est = Float(4, 2)

\* C2: for N >= 1 the returned estimate lies in the closed interval [0, 4]
C2_EstimateInZeroFour ==
    (pc = "done" /\ nMC >= 1) =>
        /\ pi_est.kind = "float"
        /\ pi_est.den > 0
        /\ 0 <= pi_est.num
        /\ pi_est.num <= 4 * pi_est.den

\* a finished call in which every trial hit: the estimate is exactly 4
C2_Witness ==
    /\ pc = "done"
    /\ nMC = MaxN
    /\ n_circle = nMC
    /\ pi_est.kind = "float"
    /\ pi_est.num = 4 * pi_est.den

\* C3: for N = 0 every variant of the estimator ends in an error and returns
\* no value
C3_ZeroTrialsFail ==
    (pc = "done" /\ nMC = 0) => pi_est.kind = "ZeroDivisionError"

\* the derivative the equations give at the state u under the parameters p
Equations(uu, pp) ==
    <<pp[1] * (uu[2] - uu[1]),
      uu[1] * (pp[2] - uu[3]) - uu[2],
      uu[1] * uu[2] - pp[3] * uu[3]>>

\* C4: lorenz(u, t, sigma, rho, beta) returns
\* (sigma*(y-x), x*(rho-z)-y, x*y-beta*z), whatever the time argument
C4_LorenzEquations ==
    res["lorenz"] # None => res["lorenz"] = Equations(u, p)

\* lorenz evaluated at a later time, on a state and parameters without zeros
C4_Witness ==
    /\ res["lorenz"] # None
    /\ tcall > 0
    /\ \A k \in 1 .. 3 : u[k] # 0 /\ p[k] # 0

\* C5: at the state (0, 0, 0) the field returns (0, 0, 0) under any parameters
C5_OriginFixedPoint ==
    \A v \in FieldVariants : (res[v] # None /\ u = Zero3) => res[v] = Zero3

\* every variant evaluated at the origin under parameters without zeros
C5_Witness ==
    /\ u = Zero3
    /\ \A k \in 1 .. 3 : p[k] # 0
    /\ \A v \in FieldVariants : res[v] = Zero3

\* C6 as stated: the field is linear in the parameters, for all scalars
C6_LinearInParameters ==
    lin # None =>
        lin.at_pq = Plus(Scale(coef[1], lin.at_p), Scale(coef[2], lin.at_q))

\* C6: the field is affine in the parameters: it commutes with the
\* combinations a*p + b*q whose scalars sum to 1
C6_AffineInParameters ==
    (lin # None /\ coef[1] + coef[2] = 1) =>
        lin.at_pq = Plus(Scale(coef[1], lin.at_p), Scale(coef[2], lin.at_q))

\* a combination 2*p - q of two different triples, on a state without zeros
C6_Witness ==
    /\ lin # None
    /\ coef = <<2, 0 - 1>>
    /\ p = <<1, 0, 1>>
    /\ q = <<0, 1, 0>>
    /\ \A k \in 1 .. 3 : u[k] # 0

\* C7: an evaluation of the field, in any variant, changes nothing but the
\* derivative it produces (the returned vector, or the buffer du)
C7_NoSideEffects ==
    [][UNCHANGED <<u, p, tcall, pivars, linvars, igvars, nbvars>>]_vars

\* both in-place variants have overwritten a buffer that held other values
C7_Witness ==
    /\ res["f"] # None
    /\ res["lorenz!"] # None
    /\ du = Equations(u, p)
    /\ du # Zero3
    /\ du # <<1, 1, 1>>

\* C8: all variants of the field compute the same derivative
C8_VariantsAgree ==
    \A v \in FieldVariants, w \in FieldVariants :
        (res[v] # None /\ res[w] # None) => res[v] = res[w]

\* all five variants evaluated under three different parameter values
C8_Witness ==
    /\ \A v \in FieldVariants : res[v] # None
    /\ p = <<1, 2, 0>>
    /\ \A k \in 1 .. 3 : u[k] # 0

\* C9: in a cell with time_func, a solver run on the same field, initial
\* state, parameters, tolerances and grid returns the trajectory that the
\* first such run returned, whatever ran before it
C9_RunsIdentical ==
    (ipc = "idle" /\ runs >= 1 /\ cell \in PythonCells) => sol = first[tol]

\* the lorenz cell after its first solve, the warm-up and a timed repetition:
\* the state has moved along the trajectory and the tolerances matter
C9_Witness ==
    /\ cell = "odeint_lorenz"
    /\ ipc = "idle"
    /\ runs = MaxRuns
    /\ sol = first["1e-8"]
    /\ first["default"] # first["1e-8"]
    /\ sol[1].u # sol[2].u

\* C10: a returned trajectory holds one state vector per sample time of the
\* grid 0, 0.1, ..., 100, in the order of the grid
C10_OneStatePerSample ==
    (ipc = "idle" /\ runs >= 1) =>
        /\ Len(sol) = NIntervals + 1
        /\ Len(sol) = Len(Grid)
        /\ \A j \in 1 .. Len(sol) :
              /\ sol[j].t = Grid[j]
              /\ sol[j].t = tspan[1] + (j - 1) * SaveAt
              /\ DOMAIN sol[j].u = 1 .. 3
        /\ sol[Len(sol)].t = tspan[2]

\* a finished run of an odeint cell or of the Julia lorenz! cell, started
\* from the notebook's initial state (1, 0, 0), that has left that state
C10_Witness ==
    /\ cell \in {"odeint_lorenz", "solve_lorenz!"}
    /\ ipc = "idle"
    /\ runs >= 1
    /\ u0 = <<1, 0, 0>>
    /\ sol[1] = [t |-> 0, u |-> u0]
    /\ sol[NIntervals + 1].t = TEnd
    /\ sol[NIntervals + 1].u # u0

\* the grid is in non-decreasing order
Monotone == \A j \in 1 .. (Len(t) - 1) : t[j] <= t[j + 1]

\* C11: the grid t is non-decreasing in every state, and no solver call or
\* repetition changes it
C11_GridMonotoneImmutable == []Monotone /\ [][t' = t]_vars

\* a Python cell after all its runs, its grid of NIntervals+1 strictly
\* increasing times still in place
C11_Witness ==
    /\ cell \in PythonCells
    /\ ipc = "idle"
    /\ runs = MaxRuns
    /\ Len(t) = NIntervals + 1
    /\ t[1] = 0
    /\ t[Len(t)] = TEnd
    /\ \A j \in 1 .. (Len(t) - 1) : t[j] < t[j + 1]

\* C12: the initial state, the solver's current state, every derivative the
\* field produced and every state of the trajectory have three components
C12_ThreeComponents ==
    /\ DOMAIN u0 = 1 .. 3
    /\ DOMAIN u = 1 .. 3
    /\ DOMAIN du = 1 .. 3
    /\ \A j \in 1 .. Len(sol) : DOMAIN sol[j].u = 1 .. 3

\* a run in progress: the field has produced a non-zero derivative and a
\* second state has been saved
C12_Witness ==
    /\ ipc = "running"
    /\ Len(sol) >= 2
    /\ du # Zero3
    /\ sol[2].u # sol[1].u

SelfContained == {"57d69eb4", "41fdcaa3", "b352e6a7", "9d938a88"}

OwnResult == Float(4 * Hits, nMC)

\* C14 as stated: a call starts its counter at 0, returns a result fixed by
\* its own trial count and draws, and changes no other state
C14_NoStateRetained ==
    [][/\ (pc = "ready" /\ pc' = "loop") => n_circle' = 0
       /\ (pc # "done" /\ pc' = "done" /\ nMC >= 1) => pi_est' = OwnResult'
       /\ variant' = variant
       /\ nMC' = nMC
       /\ printed' = printed]_vars

\* the part of C14 that every variant meets: the same, except that a call of
\* the vectorized estimator also prints its hit count
C14_NoStateRetainedButPrint ==
    [][/\ (pc = "ready" /\ pc' = "loop") => n_circle' = 0
       /\ (pc # "done" /\ pc' = "done" /\ nMC >= 1) => pi_est' = OwnResult'
       /\ variant' = variant
       /\ nMC' = nMC
       /\ \/ printed' = printed
          \/ /\ variant = "vectorized"
             /\ pc # "done"
             /\ pc' = "done"
             /\ printed' = Append(printed, Hits')]_vars

\* the third call of a cell returns 0 although the first two calls had hits
C14_Witness ==
    /\ calls = NCalls
    /\ pc = "done"
    /\ nMC = 2
    /\ printed = <<2, 1, 0>>
    /\ pi_est = Float(0, 2)

\* C16: on the draws a finished loop call took, the vectorized computation
\* gives the hit count and the estimate that the loop gave
C16_LoopEqualsVectorized ==
    (pc = "done" /\ variant \in {"loop", "numba"} /\ nMC >= 1) =>
        /\ n_circle = MaskCount(d, nMC)
        /\ pi_est = py_return(MaskCount(d, nMC), nMC)

\* a finished loop call whose draws pair up differently by rows and by
\* columns: one hit out of two trials
C16_Witness ==
    /\ pc = "done"
    /\ variant = "loop"
    /\ nMC = 2
    /\ d = <<0, 0, 2, 2>>
    /\ n_circle = 1
    /\ pi_est = Float(4, 2)

\* in and after the loop: the counter is between 0 and the number of
\* completed trials, which is at most N, and two draws were taken per trial
LoopBounds ==
    pc \in {"loop", "done"} =>
        /\ 0 <= n_circle
        /\ n_circle <= i
        /\ i <= nMC
        /\ Len(d) = 2 * i

\* C17: for N >= 1 the loop ends after exactly N iterations and 2N draws,
\* with 0 <= n_circle <= completed trials throughout
C17_LoopTerminates ==
    /\ []LoopBounds
    /\ (pc = "loop" /\ nMC >= 1) ~> (pc = "done" /\ i = nMC /\ Len(d) = 2 * nMC)

\* a finished call of the largest trial count with both hits and misses
C17_Witness ==
    /\ pc = "done"
    /\ nMC = MaxN
    /\ i = nMC
    /\ Len(d) = 2 * nMC
    /\ n_circle >= 1
    /\ n_circle < nMC

====
